---- MODULE Spec2Model ----
(***************************************************************************)
(* A model of the document tracker: the relational store with its row      *)
(* level policies and notification triggers (supabase_schema.sql), the     *)
(* document detail page and the create form that write to it               *)
(* (DocumentDetails, CreateDocument), and the client notification store    *)
(* (NotificationContext).                                                  *)
(*                                                                         *)
(* Spec      : the relational store driven by two browser sessions.        *)
(* SpecStore : the notification store of one signed-in session.            *)
(***************************************************************************)
EXTENDS Integers, Sequences, FiniteSets, TLC

\* ------------------------------------------------------------------ bounds
\* documents ever inserted
MaxDocs == 1
\* signatories entered on the create form
MaxSigs == 2
\* notification rows inserted by create_notification_for_user in SpecStore
MaxNotifs == 2
\* calls of the notification store awaiting their response
MaxCalls == 2
\* notification rows a user has stored when the store is loaded (SpecLoad)
MaxRows == 52

\* ------------------------------------------------------------- SQL values
\* SQL NULL; booleans are the strings "true" and "false" so that a nullable
\* boolean column has one comparable value domain.
NULL == "null"
T == "true"
F == "false"

Bool3(b) == IF b THEN T ELSE F

\* a != b in SQL: NULL when either operand is NULL
SqlNeq(a, b) == IF a = NULL \/ b = NULL THEN NULL ELSE Bool3(a # b)

\* a IS DISTINCT FROM b
IsDistinctFrom(a, b) == a # b

\* COALESCE(a, b)
Coalesce(a, b) == IF a = NULL THEN b ELSE a

\* plpgsql IF: the branch is taken only when the condition is true
PlpgsqlIf(cond) == cond = T

\* '00000000-0000-0000-0000-000000000000'::UUID, the id of no user
ZeroUuid == "00000000"

\* ----------------------------------------------------------------- actors
Users == {"u1", "u2", "u3"}
Roles == {"admin", "member"}
Clients == {"c1", "c2"}

\* user.id of the session held by a browser
SessionUser(c) == IF c = "c1" THEN "u1" ELSE "u2"

DocIds == 1..MaxDocs
SigIdx == 1..MaxSigs

\* notifications.document_id is nullable: the id of no document
NoDoc == 0

VARIABLES
    db,             \* the relational store
    lastTx,         \* the last statement the store executed, and its outcome
    everCommented,  \* per document, the users who have commented on it
    page,           \* per browser, the state of the page it shows
    notifications,  \* NotificationProvider state: the cached list
    unreadCount,    \* NotificationProvider state: the unread counter
    calls,          \* store calls whose response has not arrived
    channel,        \* INSERT events of the live channel not yet delivered
    marked,         \* the notifications a markAsRead call has marked read
    sw,             \* the service worker: its last push event and what it displays
    session         \* AuthProvider state, the realtime channels open, the busy flags

vars ==
    <<db, lastTx, everCommented, page, notifications, unreadCount, calls, channel, marked,
      sw, session>>

dbVars == <<db, lastTx, everCommented, page>>
storeVars == <<notifications, unreadCount, calls, channel, marked, sw, session>>

\* the service worker before any push event: nothing handled, nothing displayed
NotificationTags == {"document-tracker", "t1"}
NotDisplayed == [title |-> "-", body |-> "-", displayed |-> FALSE]
NoEvent == [kind |-> "-", text |-> "-", title |-> "-", body |-> "-", tag |-> "-"]
IdleWorker ==
    [event |-> NoEvent, calls |-> <<>>, displayed |-> [t \in NotificationTags |-> NotDisplayed]]

\* the session of the browser whose providers are modelled: the AuthProvider
\* state (user, loading), the position of getInitialSession and of the
\* onAuthStateChange callback, the realtime channels open, and the components'
\* busy flags that are set
NoUser == "-"
SignedIn ==
    [user |-> SessionUser("c1"), loading |-> FALSE, pc |-> "returned", listener |-> "idle",
     channels |-> 1, flags |-> {}]

\* ------------------------------------------------------------ the tables
NoRow == [exists |-> FALSE]

\* documents: created_by, requires_admin_approval, admin_approved, status
DocumentRow(creator, requires, approved, status) ==
    [exists |-> TRUE, created_by |-> creator, requires_admin_approval |-> requires,
     admin_approved |-> approved, status |-> status]

\* documents.admin_approved BOOLEAN DEFAULT false
AdminApprovedDefault == F

\* document_signatories: is_signed, signed_at
SignatoryRow(isSigned, signedAt) ==
    [exists |-> TRUE, is_signed |-> isSigned, signed_at |-> signedAt]

\* the columns of document_signatories
SignatoryColumns ==
    {"id", "document_id", "name", "position", "email", "phone", "is_signed",
     "signed_at", "notes", "order_index", "created_at", "updated_at"}

\* notifications: read BOOLEAN DEFAULT FALSE
NotificationRow(id, user, doc, type) ==
    [id |-> id, user_id |-> user, document_id |-> doc, type |-> type, read |-> FALSE]

EmptyDb ==
    [users |-> [u \in Users |-> "member"],
     documents |-> [d \in DocIds |-> NoRow],
     document_signatories |-> [d \in DocIds |-> [s \in SigIdx |-> NoRow]],
     document_comments |-> {},
     notifications |-> {},
     push_subscriptions |-> {},
     nextDoc |-> 0,
     nextNotif |-> 0,
     nextSub |-> 0]

\* the outcome of a statement: committed or rolled back, the store after it,
\* whether a row matched, and the notification rows it inserted
Committed(store, matched, rows) ==
    [ok |-> TRUE, db |-> store, matched |-> matched, inserted |-> rows]
RolledBack(store, matched) ==
    [ok |-> FALSE, db |-> store, matched |-> matched, inserted |-> {}]

\* EXISTS (SELECT 1 FROM users WHERE users.id = auth.uid() AND users.role = 'admin')
IsAdminUser(store, uid) == uid \in Users /\ store.users[uid] = "admin"

\* policy "Document creators and admins can update documents" (and delete)
DocumentPolicy(store, uid, d) ==
    /\ store.documents[d].exists
    /\ \/ store.documents[d].created_by = uid
       \/ IsAdminUser(store, uid)

\* policy "Document creators and admins can manage signatories"
SignatoryPolicy(store, uid, d) ==
    /\ store.documents[d].exists
    /\ \/ store.documents[d].created_by = uid
       \/ IsAdminUser(store, uid)

\* policy "Comment creators and admins can delete comments"
CommentDeletePolicy(store, uid, comment) ==
    comment[2] = uid \/ IsAdminUser(store, uid)

\* ------------------------------------------------ notification functions
RECURSIVE SetToSeq(_)
\* the rows of a set in some order (row order is not observable: ids are random)
SetToSeq(S) ==
    IF S = {} THEN <<>>
    ELSE LET x == CHOOSE y \in S : TRUE IN <<x>> \o SetToSeq(S \ {x})

SeqToSet(q) == {q[i] : i \in DOMAIN q}

\* INSERT INTO notifications (user_id, document_id, title, message, type, data):
\* one row per element of recipients, each with a fresh id and read = FALSE
InsertNotifications(store, recipients, doc, type) ==
    LET rows == {NotificationRow(store.nextNotif + i, recipients[i], doc, type) :
                    i \in DOMAIN recipients}
    IN [ok |-> TRUE,
        db |-> [store EXCEPT !.notifications = @ \cup rows,
                             !.nextNotif = @ + Len(recipients)],
        inserted |-> rows]

\* the error is caught and dropped (EXCEPTION WHEN OTHERS THEN NULL): the
\* function returns normally without having inserted anything
RaisedAndDropped(store) == [ok |-> TRUE, db |-> store, inserted |-> {}]

Raised(store) == [ok |-> FALSE, db |-> store, inserted |-> {}]

\* create_notification_for_users without its WHERE clause: every user
create_notification_for_users_unfiltered(store, p_type, p_document_id, p_exclude_user_id) ==
    InsertNotifications(store, SetToSeq(DOMAIN store.users), p_document_id, p_type)

\* create_notification_for_users: every user except p_exclude_user_id
create_notification_for_users(store, p_type, p_document_id, p_exclude_user_id) ==
    InsertNotifications(
        store,
        SetToSeq({u \in DOMAIN store.users : u # Coalesce(p_exclude_user_id, ZeroUuid)}),
        p_document_id, p_type)

\* create_notification_for_user: one row for p_user_id
create_notification_for_user(store, p_user_id, p_type, p_document_id) ==
    InsertNotifications(store, <<p_user_id>>, p_document_id, p_type)

\* PostgreSQL refuses a set-returning function in a WHERE clause when it
\* analyses the statement ("set-returning functions are not allowed in
\* WHERE"); a plpgsql function body is analysed statement by statement when
\* the statement first runs, so the function is created and raises when called.
SrfInWhereRejected == TRUE

\* SELECT DISTINCT unnest(all_users) ...
\*   WHERE unnest(all_users) != COALESCE(p_exclude_user_id, zero uuid)
\*     AND unnest(all_users) IS NOT NULL
SelectDistinctUnnest(all_users, p_exclude_user_id) ==
    IF SrfInWhereRejected
    THEN [ok |-> FALSE, recipients |-> <<>>]
    ELSE [ok |-> TRUE,
          recipients |-> SetToSeq({u \in SeqToSet(all_users) :
                                     /\ u # Coalesce(p_exclude_user_id, ZeroUuid)
                                     /\ u # NULL})]

\* create_notification_for_document_users: creator, admins and commenters
create_notification_for_document_users(store, p_type, p_document_id, p_exclude_user_id) ==
    LET doc_creator ==
            IF store.documents[p_document_id].exists
            THEN store.documents[p_document_id].created_by ELSE NULL
        signatory_users == SetToSeq({u \in DOMAIN store.users : store.users[u] = "admin"})
        commenter_users ==
            SetToSeq({c[2] : c \in {x \in store.document_comments : x[1] = p_document_id}})
        all_users == <<doc_creator>> \o signatory_users \o commenter_users
        sel == SelectDistinctUnnest(all_users, p_exclude_user_id)
    IN IF sel.ok
       THEN InsertNotifications(store, sel.recipients, p_document_id, p_type)
       ELSE Raised(store)

\* ---------------------------------------------------------------- triggers
\* notify_document_created whose rows outlive the document they name
notify_document_created_orphaning(store, new_id) ==
    LET f == create_notification_for_users(store, "document_created", new_id,
                                           store.documents[new_id].created_by)
    IN [f EXCEPT !.db.documents[new_id] = NoRow]

\* notify_document_created, AFTER INSERT ON documents
notify_document_created(store, new_id) ==
    create_notification_for_users(store, "document_created", new_id,
                                  store.documents[new_id].created_by)

\* notify_document_deleted, BEFORE DELETE ON documents; uid is auth.uid()
notify_document_deleted(store, old_id, uid) ==
    create_notification_for_document_users(store, "document_deleted", old_id, uid)

\* notify_status_updated without its IF: the function is called on every update
StatusChangeGuardAbsent(old, new) == TRUE

\* IF OLD.admin_approved != NEW.admin_approved THEN
StatusChangeGuard(old, new) ==
    PlpgsqlIf(SqlNeq(old.admin_approved, new.admin_approved))

\* notify_status_updated, AFTER UPDATE ON documents
notify_status_updated(store, old, new, id, uid) ==
    IF StatusChangeGuard(old, new)
    THEN create_notification_for_document_users(store, "status_updated", id, uid)
    ELSE [ok |-> TRUE, db |-> store, inserted |-> {}]

\* notify_signature_updated, AFTER UPDATE ON document_signatories.
\* IF OLD.signed_at IS DISTINCT FROM NEW.signed_at OR OLD.status != NEW.status:
\* the row type has no column "status", and plpgsql raises
\* 'record "old" has no field "status"' when it evaluates the condition.
notify_signature_updated(store, old, new, document_id) ==
    IF "status" \notin SignatoryColumns
    THEN Raised(store)
    ELSE IF IsDistinctFrom(old.signed_at, new.signed_at)
         THEN create_notification_for_document_users(store, "signature_added",
                                                     document_id, NULL)
         ELSE [ok |-> TRUE, db |-> store, inserted |-> {}]

\* -------------------------------------------------------------- statements
\* keep a column as it is
KEEP == "keep"

\* INSERT INTO documents (..., created_by, requires_admin_approval[, admin_approved], status)
InsertDocument(store, uid, requires, approved) ==
    LET d == store.nextDoc + 1
        s1 == [store EXCEPT !.documents[d] = DocumentRow(uid, requires, approved, "pending"),
                            !.nextDoc = d]
        trg == notify_document_created(s1, d)
    IN IF trg.ok THEN Committed(trg.db, TRUE, trg.inserted)
       ELSE RolledBack(store, TRUE)

\* INSERT INTO document_signatories: n rows with is_signed = false
InsertSignatories(store, uid, d, n) ==
    IF SignatoryPolicy(store, uid, d)
    THEN Committed([store EXCEPT !.document_signatories[d] =
                        [s \in SigIdx |-> IF s <= n THEN SignatoryRow(FALSE, NULL)
                                          ELSE @[s]]],
                   TRUE, {})
    ELSE RolledBack(store, FALSE)

\* UPDATE documents SET admin_approved = ..., status = ... WHERE id = d
UpdateDocument(store, uid, d, approved, status) ==
    IF ~DocumentPolicy(store, uid, d)
    THEN Committed(store, FALSE, {})
    ELSE LET old == store.documents[d]
             new == [old EXCEPT
                        !.admin_approved = IF approved = KEEP THEN @ ELSE approved,
                        !.status = IF status = KEEP THEN @ ELSE status]
             s1  == [store EXCEPT !.documents[d] = new]
             trg == notify_status_updated(s1, old, new, d, uid)
         IN IF trg.ok THEN Committed(trg.db, TRUE, trg.inserted)
            ELSE RolledBack(store, TRUE)

\* signed_at: isSigned ? new Date().toISOString() : null.  The time of the
\* call is later than every stored time: "now" while the statement runs,
\* "past" once stored.
SignedAtNow(isSigned) == IF isSigned THEN "now" ELSE NULL
Stored(signedAt) == IF signedAt = "now" THEN "past" ELSE signedAt

\* UPDATE document_signatories SET is_signed, signed_at, notes WHERE id = (d, s)
UpdateSignatory(store, uid, d, s, isSigned) ==
    IF ~(store.document_signatories[d][s].exists /\ SignatoryPolicy(store, uid, d))
    THEN Committed(store, FALSE, {})
    ELSE LET old == store.document_signatories[d][s]
             new == SignatoryRow(isSigned, SignedAtNow(isSigned))
             s1  == [store EXCEPT !.document_signatories[d][s] =
                                      SignatoryRow(isSigned, Stored(new.signed_at))]
             trg == notify_signature_updated(s1, old, new, d)
         IN IF trg.ok THEN Committed(trg.db, TRUE, trg.inserted)
            ELSE RolledBack(store, TRUE)

\* INSERT INTO document_comments (document_id, user_id, comment)
InsertComment(store, uid, d) ==
    IF store.documents[d].exists
    THEN Committed([store EXCEPT !.document_comments = @ \cup {<<d, uid>>}], TRUE, {})
    ELSE RolledBack(store, FALSE)

\* DELETE FROM document_comments WHERE document_id = d
DeleteComments(store, uid, d) ==
    LET gone == {c \in store.document_comments :
                    c[1] = d /\ CommentDeletePolicy(store, uid, c)}
    IN Committed([store EXCEPT !.document_comments = @ \ gone], gone # {}, {})

\* DELETE FROM document_signatories WHERE document_id = d
DeleteSignatories(store, uid, d) ==
    IF SignatoryPolicy(store, uid, d)
    THEN Committed([store EXCEPT !.document_signatories[d] = [s \in SigIdx |-> NoRow]],
                   TRUE, {})
    ELSE Committed(store, FALSE, {})

\* ON DELETE CASCADE from documents(id): signatories, comments, notifications
CascadeDocument(store, d) ==
    [store EXCEPT !.documents[d] = NoRow,
                  !.document_signatories[d] = [s \in SigIdx |-> NoRow],
                  !.document_comments = {c \in @ : c[1] # d},
                  !.notifications = {n \in @ : n.document_id # d}]

\* DELETE FROM documents WHERE id = d
DeleteDocument(store, uid, d) ==
    IF ~DocumentPolicy(store, uid, d)
    THEN Committed(store, FALSE, {})
    ELSE LET trg == notify_document_deleted(store, d, uid)
         IN IF trg.ok
            THEN LET s2 == CascadeDocument(trg.db, d)
                 IN Committed(s2, TRUE, trg.inserted \cap s2.notifications)
            ELSE RolledBack(store, TRUE)

\* ------------------------------------------------------- the document page
\* DocumentDetails state: document, signatories, and the position of the
\* handler that is running.  While fetchDocumentDetails runs, loading is true
\* and the page shows a spinner instead of its buttons.
BlankPage ==
    [pc |-> "idle", id |-> NoDoc, document |-> NoRow,
     signatories |-> [s \in SigIdx |-> NoRow], docData |-> NoRow, n |-> 0]

NoTx ==
    [by |-> "-", op |-> "-", actor |-> "-", doc |-> NoDoc, sig |-> 0, arg |-> "-",
     old |-> "-", matched |-> FALSE, ok |-> TRUE, inserted |-> {}]

\* the record of a statement and its outcome: the handler that issued it, the
\* statement, auth.uid(), the document (and signatory) it names, the value it
\* writes (arg) and the value the row held (old): admin_approved for an update
\* of documents, signed_at for an update of a signatory, created_by for a delete
Tx(by, op, uid, d, s, arg, old, res) ==
    [by |-> by, op |-> op, actor |-> uid, doc |-> d, sig |-> s, arg |-> arg,
     old |-> old, matched |-> res.matched, ok |-> res.ok, inserted |-> res.inserted]

\* profile?.role === 'admin'
ProfileIsAdmin(c) == db.users[SessionUser(c)] = "admin"

\* isDocumentLocked: requires_admin_approval && admin_approved === false
isDocumentLocked(document) ==
    document.exists /\ document.requires_admin_approval /\ document.admin_approved = F

\* canUserDelete: profile.role === 'admin' || document.created_by === user.id
canUserDelete(c, document) ==
    ProfileIsAdmin(c) \/ (document.exists /\ document.created_by = SessionUser(c))

\* the page shows a loaded document and no handler of it is running
Shown(c) == page[c].pc = "idle" /\ page[c].document.exists

\* the create form submits: INSERT INTO documents, then (as the next step)
\* the signatories.  approved is the admin_approved value the row is given.
SubmitDocument(c, by, requires, approved, n) ==
    /\ page[c].pc = "idle"
    /\ db.nextDoc < MaxDocs
    /\ LET uid == SessionUser(c)
           res == InsertDocument(db, uid, requires, approved)
       IN /\ db' = res.db
          /\ lastTx' = Tx(by, "insert_document", uid, db.nextDoc + 1, 0, approved, "-", res)
          /\ page' = [page EXCEPT ![c] =
                        IF res.ok
                        THEN [BlankPage EXCEPT !.pc = "submit_sigs",
                                               !.id = db.nextDoc + 1, !.n = n]
                        ELSE BlankPage]
    /\ UNCHANGED <<everCommented, storeVars>>

\* onSubmit: documentData carries no admin_approved, the column default applies
onSubmit(c, requires, n) ==
    SubmitDocument(c, "onSubmit", requires, AdminApprovedDefault, n)

\* an authenticated session inserting a document row whose admin_approved is
\* NULL (policy "All authenticated users can create documents"; the column is
\* nullable, and the page renders admin_approved === null as "pending review")
insertUnreviewedDocument(c, requires, n) ==
    SubmitDocument(c, "insert", requires, NULL, n)

\* onSubmit, second statement: the signatories, then navigate to the document
onSubmitSignatories(c) ==
    /\ page[c].pc = "submit_sigs"
    /\ LET uid == SessionUser(c)
           d   == page[c].id
           res == InsertSignatories(db, uid, d, page[c].n)
       IN /\ db' = res.db
          /\ lastTx' = Tx("onSubmit", "insert_signatories", uid, d, 0, "-", "-", res)
          /\ page' = [page EXCEPT ![c] =
                        IF res.ok
                        THEN [BlankPage EXCEPT !.pc = "fetch_doc", !.id = d]
                        ELSE BlankPage]
    /\ UNCHANGED <<everCommented, storeVars>>

\* navigate to /document/:id: the page mounts and useEffect([id]) fetches
openDocument(c, d) ==
    /\ page[c].pc = "idle"
    /\ db.documents[d].exists
    /\ page[c].id # d
    /\ page' = [page EXCEPT ![c] = [BlankPage EXCEPT !.pc = "fetch_doc", !.id = d]]
    /\ UNCHANGED <<db, lastTx, everCommented, storeVars>>

\* fetchDocumentDetails, first select: the document (.single() fails on no row)
fetchDocument(c) ==
    /\ page[c].pc = "fetch_doc"
    /\ page' = [page EXCEPT ![c] =
                  IF db.documents[page[c].id].exists
                  THEN [@ EXCEPT !.pc = "fetch_sigs", !.docData = db.documents[page[c].id]]
                  ELSE [@ EXCEPT !.pc = "idle"]]
    /\ UNCHANGED <<db, lastTx, everCommented, storeVars>>

\* fetchDocumentDetails, the signatories select, then setDocument and
\* setSignatories with what the selects returned
fetchSignatories(c) ==
    /\ page[c].pc = "fetch_sigs"
    /\ page' = [page EXCEPT ![c] =
                  [@ EXCEPT !.pc = "idle",
                            !.document = page[c].docData,
                            !.signatories = db.document_signatories[page[c].id],
                            !.docData = NoRow]]
    /\ UNCHANGED <<db, lastTx, everCommented, storeVars>>

\* signatories.map(sig => sig.id === signatoryId ? {...sig, is_signed} : sig)
MarkSignatory(signatories, s, isSigned) ==
    [signatories EXCEPT ![s] = SignatoryRow(isSigned, Stored(SignedAtNow(isSigned)))]

\* updatedSignatories.every(sig => sig.is_signed)
AllSigned(signatories) ==
    \A s \in SigIdx : signatories[s].exists => signatories[s].is_signed

\* if (allSigned && document.admin_approved !== false)
CompletionGuard(signatories, document) ==
    AllSigned(signatories) /\ document.admin_approved # F

\* the buttons of a signatory row: "Mark as Signed" when it is unsigned and the
\* document is not locked, "Undo" when it is signed and the document is not locked
SignatoryButton(c, s, isSigned) ==
    /\ page[c].signatories[s].exists
    /\ page[c].signatories[s].is_signed = ~isSigned
    /\ ~isDocumentLocked(page[c].document)

\* updateSignatureStatus up to the check of allSigned
updateSignatureStatus(c, s, isSigned) ==
    /\ Shown(c)
    /\ SignatoryButton(c, s, isSigned)
    /\ LET uid == SessionUser(c)
           d   == page[c].id
           res == UpdateSignatory(db, uid, d, s, isSigned)
           updatedSignatories == MarkSignatory(page[c].signatories, s, isSigned)
       IN /\ db' = res.db
          /\ lastTx' = Tx("updateSignatureStatus", "update_signatory", uid, d, s,
                          SignedAtNow(isSigned),
                          IF db.document_signatories[d][s].exists
                          THEN db.document_signatories[d][s].signed_at ELSE "-", res)
          /\ page' = [page EXCEPT ![c] =
                        IF ~res.ok THEN @
                        ELSE [@ EXCEPT !.signatories = updatedSignatories,
                                       !.pc = IF CompletionGuard(updatedSignatories,
                                                                 page[c].document)
                                              THEN "uss_status" ELSE "fetch_doc"]]
    /\ UNCHANGED <<everCommented, storeVars>>

\* updateSignatureStatus: update documents set status = 'completed' (its
\* result is not inspected), setDocument, the activity row, then the refresh
completeDocument(c) ==
    /\ page[c].pc = "uss_status"
    /\ LET uid == SessionUser(c)
           d   == page[c].id
           res == UpdateDocument(db, uid, d, KEEP, "completed")
       IN /\ db' = res.db
          /\ lastTx' = Tx("updateSignatureStatus", "update_document", uid, d, 0, KEEP,
                          IF db.documents[d].exists THEN db.documents[d].admin_approved
                          ELSE "-", res)
          /\ page' = [page EXCEPT ![c] =
                        [@ EXCEPT !.document.status = "completed", !.pc = "fetch_doc"]]
    /\ UNCHANGED <<everCommented, storeVars>>

\* handleAdminApproval: the panel is rendered when the document requires
\* approval, its buttons for an admin profile
handleAdminApproval(c, approved) ==
    /\ Shown(c)
    /\ page[c].document.requires_admin_approval
    /\ ProfileIsAdmin(c)
    /\ LET uid == SessionUser(c)
           d   == page[c].id
           res == UpdateDocument(db, uid, d, Bool3(approved), KEEP)
       IN /\ db' = res.db
          /\ lastTx' = Tx("handleAdminApproval", "update_document", uid, d, 0,
                          Bool3(approved),
                          IF db.documents[d].exists THEN db.documents[d].admin_approved
                          ELSE "-", res)
          /\ page' = [page EXCEPT ![c] =
                        IF ~res.ok THEN @
                        ELSE [@ EXCEPT !.document.admin_approved = Bool3(approved),
                                       !.pc = "fetch_doc"]]
    /\ UNCHANGED <<everCommented, storeVars>>

\* handleDeleteDocument, confirmed twice: the comments (and the activity)
handleDeleteDocument(c) ==
    /\ Shown(c)
    /\ canUserDelete(c, page[c].document)
    /\ LET uid == SessionUser(c)
           d   == page[c].id
           res == DeleteComments(db, uid, d)
       IN /\ db' = res.db
          /\ lastTx' = Tx("handleDeleteDocument", "delete_comments", uid, d, 0, "-", "-", res)
          /\ page' = [page EXCEPT ![c].pc = "del_sigs"]
    /\ UNCHANGED <<everCommented, storeVars>>

\* handleDeleteDocument: the signatories
deleteSignatories(c) ==
    /\ page[c].pc = "del_sigs"
    /\ LET uid == SessionUser(c)
           d   == page[c].id
           res == DeleteSignatories(db, uid, d)
       IN /\ db' = res.db
          /\ lastTx' = Tx("handleDeleteDocument", "delete_signatories", uid, d, 0, "-", "-", res)
          /\ page' = [page EXCEPT ![c].pc = "del_doc"]
    /\ UNCHANGED <<everCommented, storeVars>>

\* handleDeleteDocument: the document; navigate('/dashboard') unless it failed
deleteDocument(c) ==
    /\ page[c].pc = "del_doc"
    /\ LET uid == SessionUser(c)
           d   == page[c].id
           res == DeleteDocument(db, uid, d)
       IN /\ db' = res.db
          /\ lastTx' = Tx("handleDeleteDocument", "delete_document", uid, d, 0, "-",
                          IF db.documents[d].exists THEN db.documents[d].created_by
                          ELSE "-", res)
          /\ page' = [page EXCEPT ![c] = IF res.ok THEN BlankPage
                                         ELSE [@ EXCEPT !.pc = "idle"]]
    /\ UNCHANGED <<everCommented, storeVars>>

\* addComment
addComment(c) ==
    /\ Shown(c)
    /\ LET uid == SessionUser(c)
           d   == page[c].id
           res == InsertComment(db, uid, d)
       IN /\ <<d, uid>> \notin db.document_comments
          /\ db' = res.db
          /\ lastTx' = Tx("addComment", "insert_comment", uid, d, 0, "-", "-", res)
          /\ everCommented' = IF res.ok
                              THEN [everCommented EXCEPT ![d] = @ \cup {uid}]
                              ELSE everCommented
    /\ UNCHANGED <<page, storeVars>>

\* ------------------------------------------------------------------- Spec
InitStore ==
    /\ notifications = <<>>
    /\ unreadCount = 0
    /\ calls = <<>>
    /\ channel = <<>>
    /\ marked = {}
    /\ sw = IdleWorker
    /\ session = SignedIn

Init ==
    /\ \E roles \in [Users -> Roles] : db = [EmptyDb EXCEPT !.users = roles]
    /\ lastTx = NoTx
    /\ everCommented = [d \in DocIds |-> {}]
    /\ page = [c \in Clients |-> BlankPage]
    /\ InitStore

Next ==
    \/ \E c \in Clients, requires \in BOOLEAN, n \in SigIdx : onSubmit(c, requires, n)
    \/ \E c \in Clients, requires \in BOOLEAN, n \in SigIdx :
            insertUnreviewedDocument(c, requires, n)
    \/ \E c \in Clients : onSubmitSignatories(c)
    \/ \E c \in Clients, d \in DocIds : openDocument(c, d)
    \/ \E c \in Clients : fetchDocument(c)
    \/ \E c \in Clients : fetchSignatories(c)
    \/ \E c \in Clients, s \in SigIdx, isSigned \in BOOLEAN :
            updateSignatureStatus(c, s, isSigned)
    \/ \E c \in Clients : completeDocument(c)
    \/ \E c \in Clients, approved \in BOOLEAN : handleAdminApproval(c, approved)
    \/ \E c \in Clients : handleDeleteDocument(c)
    \/ \E c \in Clients : deleteSignatories(c)
    \/ \E c \in Clients : deleteDocument(c)
    \/ \E c \in Clients : addComment(c)

Spec == Init /\ [][Next]_vars

\* ------------------------------------------------- the notification store
\* the user whose NotificationProvider is modelled
StoreUser == SessionUser("c1")

\* .limit(50)
LoadLimit == 50

\* a notification as the cached list holds it
Entry(id, read) == [id |-> id, read |-> read]

\* an asynchronous call of the store: the request is sent, the backend
\* executes it (phase done, with its error flag and data), and the code after
\* the await runs when the response arrives. unread is what the handler's
\* closure saw for the notification when it was called.
Call(op, id, unread) ==
    [op |-> op, id |-> id, unread |-> unread, phase |-> "sent", ok |-> FALSE, data |-> <<>>]

RemoveAt(q, i) == SubSeq(q, 1, i - 1) \o SubSeq(q, i + 1, Len(q))

Max(a, b) == IF a > b THEN a ELSE b

RECURSIVE OrderByCreatedAtDesc(_)
\* .order('created_at', { ascending: false }): ids are handed out in creation order
OrderByCreatedAtDesc(rows) ==
    IF rows = {} THEN <<>>
    ELSE LET r == CHOOSE x \in rows : \A y \in rows : y.id <= x.id
         IN <<Entry(r.id, r.read)>> \o OrderByCreatedAtDesc(rows \ {r})

Limit(q, n) == SubSeq(q, 1, IF Len(q) < n THEN Len(q) ELSE n)

\* row level security switched off
NotificationPolicyDisabled(uid, row) == TRUE

\* policy "Users can view / update / delete their own notifications"
NotificationPolicy(uid, row) == row.user_id = uid

\* select * from notifications where user_id = uid order by created_at desc limit 50
SelectNotifications(store, uid) ==
    Limit(OrderByCreatedAtDesc({r \in store.notifications :
                                   NotificationPolicy(uid, r) /\ r.user_id = uid}),
          LoadLimit)

\* update notifications set read = true where id = id
UpdateNotificationRead(store, uid, id) ==
    [store EXCEPT !.notifications =
        {IF NotificationPolicy(uid, r) /\ r.id = id THEN [r EXCEPT !.read = TRUE] ELSE r :
            r \in @}]

\* update notifications set read = true where user_id = uid and read = false
UpdateAllNotificationsRead(store, uid) ==
    [store EXCEPT !.notifications =
        {IF NotificationPolicy(uid, r) /\ r.user_id = uid /\ ~r.read
         THEN [r EXCEPT !.read = TRUE] ELSE r : r \in @}]

\* delete from notifications where id = id
DeleteNotificationRow(store, uid, id) ==
    [store EXCEPT !.notifications = {r \in @ : ~(NotificationPolicy(uid, r) /\ r.id = id)}]

\* delete from notifications where user_id = uid
DeleteNotificationRows(store, uid) ==
    [store EXCEPT !.notifications =
        {r \in @ : ~(NotificationPolicy(uid, r) /\ r.user_id = uid)}]

\* the statement a call sends, executed by the backend
Backend(store, uid, c) ==
    CASE c.op = "loadNotifications"     -> store
      [] c.op = "markAsRead"            -> UpdateNotificationRead(store, uid, c.id)
      [] c.op = "markAllAsRead"         -> UpdateAllNotificationsRead(store, uid)
      [] c.op = "deleteNotification"    -> DeleteNotificationRow(store, uid, c.id)
      [] c.op = "clearAllNotifications" -> DeleteNotificationRows(store, uid)

Unread(list) == Cardinality({k \in DOMAIN list : ~list[k].read})

\* notifications.find(n => n.id === notificationId) is there and unread
FindUnread(list, id) ==
    LET found == {k \in DOMAIN list : list[k].id = id}
    IN found # {} /\ ~list[CHOOSE k \in found : \A j \in found : k <= j].read

\* the state updates each handler makes after its await, applied to the
\* list and count current at that moment (functional setState)
loadNotificationsThen(c, list, count) ==
    [notifications |-> c.data, unreadCount |-> Unread(c.data)]

markAsReadThen(c, list, count) ==
    [notifications |-> [k \in DOMAIN list |->
                           IF list[k].id = c.id THEN [list[k] EXCEPT !.read = TRUE]
                           ELSE list[k]],
     unreadCount |-> Max(0, count - 1)]

markAllAsReadThen(c, list, count) ==
    [notifications |-> [k \in DOMAIN list |-> [list[k] EXCEPT !.read = TRUE]],
     unreadCount |-> 0]

deleteNotificationThen(c, list, count) ==
    [notifications |-> SelectSeq(list, LAMBDA n : n.id # c.id),
     unreadCount |-> IF c.unread THEN count - 1 ELSE count]

\* clearAllNotifications that empties the list and keeps the counter
clearAllNotificationsKeepsCount(c, list, count) ==
    [notifications |-> <<>>, unreadCount |-> count]

clearAllNotificationsThen(c, list, count) ==
    [notifications |-> <<>>, unreadCount |-> 0]

Then(c, list, count) ==
    CASE c.op = "loadNotifications"     -> loadNotificationsThen(c, list, count)
      [] c.op = "markAsRead"            -> markAsReadThen(c, list, count)
      [] c.op = "markAllAsRead"         -> markAllAsReadThen(c, list, count)
      [] c.op = "deleteNotification"    -> deleteNotificationThen(c, list, count)
      [] c.op = "clearAllNotifications" -> clearAllNotificationsThen(c, list, count)

\* useEffect on [user] with a user: loadNotifications() is called
loadNotifications ==
    /\ Len(calls) < MaxCalls
    /\ calls' = Append(calls, Call("loadNotifications", 0, FALSE))
    /\ UNCHANGED <<dbVars, notifications, unreadCount, channel, marked, sw, session>>

\* the row's "Mark as read" button or a click on the row, both offered only
\* while the cached notification is unread
markAsRead(id) ==
    /\ Len(calls) < MaxCalls
    /\ \E k \in DOMAIN notifications : notifications[k].id = id /\ ~notifications[k].read
    /\ calls' = Append(calls, Call("markAsRead", id, FALSE))
    /\ UNCHANGED <<dbVars, notifications, unreadCount, channel, marked, sw, session>>

\* "Mark all read", offered while the list is not empty and unreadCount > 0
markAllAsRead ==
    /\ Len(calls) < MaxCalls
    /\ Len(notifications) > 0
    /\ unreadCount > 0
    /\ calls' = Append(calls, Call("markAllAsRead", 0, FALSE))
    /\ UNCHANGED <<dbVars, notifications, unreadCount, channel, marked, sw, session>>

\* the row's "Delete" button; the handler closes over the list of the render
\* it was created in
deleteNotification(id) ==
    /\ Len(calls) < MaxCalls
    /\ \E k \in DOMAIN notifications : notifications[k].id = id
    /\ calls' = Append(calls, Call("deleteNotification", id, FindUnread(notifications, id)))
    /\ UNCHANGED <<dbVars, notifications, unreadCount, channel, marked, sw, session>>

\* "Clear all", offered while the list is not empty
clearAllNotifications ==
    /\ Len(calls) < MaxCalls
    /\ Len(notifications) > 0
    /\ calls' = Append(calls, Call("clearAllNotifications", 0, FALSE))
    /\ UNCHANGED <<dbVars, notifications, unreadCount, channel, marked, sw, session>>

\* the backend executes the request of a call, or the request fails
execute(i, ok) ==
    /\ i \in DOMAIN calls
    /\ calls[i].phase = "sent"
    /\ db' = IF ok THEN Backend(db, StoreUser, calls[i]) ELSE db
    /\ calls' = [calls EXCEPT ![i] =
                    [@ EXCEPT !.phase = "done", !.ok = ok,
                              !.data = IF ok /\ calls[i].op = "loadNotifications"
                                       THEN SelectNotifications(db, StoreUser)
                                       ELSE <<>>]]
    /\ UNCHANGED <<lastTx, everCommented, page, notifications, unreadCount, channel, marked, sw, session>>

\* resolve with the state updates made before the error is looked at
resolveBeforeErrorCheck(i) ==
    /\ i \in DOMAIN calls
    /\ calls[i].phase = "done"
    /\ calls' = RemoveAt(calls, i)
    /\ notifications' = Then(calls[i], notifications, unreadCount).notifications
    /\ unreadCount' = Then(calls[i], notifications, unreadCount).unreadCount
    /\ marked' = IF calls[i].ok /\ calls[i].op = "markAsRead"
                 THEN marked \cup {calls[i].id} ELSE marked
    /\ UNCHANGED <<dbVars, channel, sw, session>>

\* the response of a call arrives: on an error the handler only logs it
resolve(i) ==
    /\ i \in DOMAIN calls
    /\ calls[i].phase = "done"
    /\ calls' = RemoveAt(calls, i)
    /\ notifications' = IF calls[i].ok
                        THEN Then(calls[i], notifications, unreadCount).notifications
                        ELSE notifications
    /\ unreadCount' = IF calls[i].ok
                      THEN Then(calls[i], notifications, unreadCount).unreadCount
                      ELSE unreadCount
    /\ marked' = IF calls[i].ok /\ calls[i].op = "markAsRead"
                 THEN marked \cup {calls[i].id} ELSE marked
    /\ UNCHANGED <<dbVars, channel, sw, session>>

\* a row is inserted for a user; every realtime channel the session has
\* open, filtered on user_id = StoreUser, queues the INSERT event
rpcCreateNotification(u) ==
    /\ db.nextNotif < MaxNotifs
    /\ db' = create_notification_for_user(db, u, "admin_approval", NoDoc).db
    /\ channel' = IF u = StoreUser /\ session.user = StoreUser
                  THEN channel \o [k \in 1..session.channels |-> db.nextNotif + 1]
                  ELSE channel
    /\ UNCHANGED <<lastTx, everCommented, page, notifications, unreadCount, calls, marked, sw, session>>

\* the postgres_changes INSERT callback
onInsert ==
    /\ channel # <<>>
    /\ notifications' = <<Entry(Head(channel), FALSE)>> \o notifications
    /\ unreadCount' = unreadCount + 1
    /\ channel' = Tail(channel)
    /\ UNCHANGED <<dbVars, calls, marked, sw, session>>

\* the provider of a session that has just signed in: the list is empty and
\* the first loadNotifications is awaiting its response
InitSignedIn ==
    /\ db = EmptyDb
    /\ lastTx = NoTx
    /\ everCommented = [d \in DocIds |-> {}]
    /\ page = [c \in Clients |-> BlankPage]
    /\ notifications = <<>>
    /\ unreadCount = 0
    /\ calls = <<Call("loadNotifications", 0, FALSE)>>
    /\ channel = <<>>
    /\ marked = {}
    /\ sw = IdleWorker
    /\ session = SignedIn

NotifIds == 1..MaxNotifs

NextStore ==
    \/ loadNotifications
    \/ \E id \in NotifIds : markAsRead(id)
    \/ markAllAsRead
    \/ \E id \in NotifIds : deleteNotification(id)
    \/ clearAllNotifications
    \/ \E i \in 1..MaxCalls, ok \in BOOLEAN : execute(i, ok)
    \/ \E i \in 1..MaxCalls : resolve(i)
    \/ \E c \in Clients : rpcCreateNotification(SessionUser(c))
    \/ onInsert

SpecStore == InitSignedIn /\ [][NextStore]_vars

\* --------------------------------------------- loading a stored history
\* n notification rows of the signed-in user, ids in creation order, of which
\* `unread` are unread: the newest ones or the oldest ones
StoredHistory(n, unread, newest) ==
    {[NotificationRow(id, StoreUser, NoDoc, "admin_approval") EXCEPT
         !.read = IF newest THEN id <= n - unread ELSE id > unread] : id \in 1..n}

\* a session signs in to a stored history; its first loadNotifications is
\* awaiting its response
InitLoad ==
    /\ \E n \in 0..MaxRows : \E unread \in 0..n : \E newest \in BOOLEAN :
          db = [EmptyDb EXCEPT !.notifications = StoredHistory(n, unread, newest),
                               !.nextNotif = n]
    /\ lastTx = NoTx
    /\ everCommented = [d \in DocIds |-> {}]
    /\ page = [c \in Clients |-> BlankPage]
    /\ notifications = <<>>
    /\ unreadCount = 0
    /\ calls = <<Call("loadNotifications", 0, FALSE)>>
    /\ channel = <<>>
    /\ marked = {}
    /\ sw = IdleWorker
    /\ session = SignedIn

NextLoad ==
    \/ \E ok \in BOOLEAN : execute(1, ok)
    \/ resolve(1)

SpecLoad == InitLoad /\ [][NextLoad]_vars

\* ------------------------------------------------------ push subscriptions
\* what pushManager.subscribe() hands back: an endpoint and its keys
\* (p256dh and auth, which change together)
Endpoints == {1, 2}
PushKeys == {"k1", "k2"}

\* push_subscriptions: id, user_id, endpoint, p256dh/auth; UNIQUE(user_id, endpoint)
PushSubscriptionRow(id, uid, endpoint, keys) ==
    [id |-> id, user_id |-> uid, endpoint |-> endpoint, keys |-> keys]

\* .upsert(row) with no onConflict option: INSERT ... ON CONFLICT (primary key)
\* DO UPDATE.  The row carries no id, so id is gen_random_uuid() and never
\* meets an existing primary key; a second row for the same (user_id,
\* endpoint) violates the UNIQUE constraint and the statement fails.
UpsertPushSubscription(store, uid, endpoint, keys) ==
    LET id == store.nextSub + 1
        samePrimaryKey == {r \in store.push_subscriptions : r.id = id}
        sameUserEndpoint == {r \in store.push_subscriptions :
                                r.user_id = uid /\ r.endpoint = endpoint}
    IN IF samePrimaryKey # {}
       THEN Committed([store EXCEPT !.push_subscriptions =
                          (@ \ samePrimaryKey)
                              \cup {PushSubscriptionRow(id, uid, endpoint, keys)}],
                      TRUE, {})
       ELSE IF sameUserEndpoint # {}
            THEN RolledBack(store, TRUE)
            ELSE Committed([store EXCEPT !.push_subscriptions =
                               @ \cup {PushSubscriptionRow(id, uid, endpoint, keys)},
                                         !.nextSub = id],
                           FALSE, {})

\* the keys stored for (uid, endpoint), "-" when there is no row
StoredKeys(store, uid, endpoint) ==
    LET rows == {r \in store.push_subscriptions :
                    r.user_id = uid /\ r.endpoint = endpoint}
    IN IF rows = {} THEN "-" ELSE (CHOOSE r \in rows : TRUE).keys

\* setupPushSubscription: the browser's subscription is saved for the user
setupPushSubscription(c, endpoint, keys) ==
    /\ LET uid == SessionUser(c)
           res == UpsertPushSubscription(db, uid, endpoint, keys)
       IN /\ db' = res.db
          /\ lastTx' = Tx("setupPushSubscription", "upsert_push_subscription", uid,
                          NoDoc, endpoint, keys, StoredKeys(db, uid, endpoint), res)
    /\ UNCHANGED <<everCommented, page, storeVars>>

NextPush ==
    \E c \in Clients, endpoint \in Endpoints, keys \in PushKeys :
        setupPushSubscription(c, endpoint, keys)

SpecPush == Init /\ [][NextPush]_vars

\* --------------------------------------------------- signature progress
\* The percentage is computed in JavaScript Numbers, IEEE 754 binary64: a
\* Number other than 0 is [m, e], m the 53 significant bits (most significant
\* first, m[1] = 1) and the value m[1].m[2]...m[53] * 2^e; 0 is [m |-> <<>>].
MaxSignatories == 40
Precision == 53
Zero == [m |-> <<>>, e |-> 0]

\* 2^n, and 2^n modulo t, by repeated squaring
RECURSIVE Pow2(_)
Pow2(n) ==
    IF n = 0 THEN 1
    ELSE LET h == Pow2(n \div 2) IN IF n % 2 = 0 THEN h * h ELSE 2 * h * h

RECURSIVE Pow2Mod(_, _)
Pow2Mod(n, t) ==
    IF n = 0 THEN 1 % t
    ELSE LET h == Pow2Mod(n \div 2, t)
         IN IF n % 2 = 0 THEN (h * h) % t ELSE (2 * h * h) % t

\* the w low binary digits of a natural number, most significant first
ToBits(n, w) == [i \in 1..w |-> (n \div Pow2(w - i)) % 2]

\* the number of binary digits of a natural number
BitLength(n) == CHOOSE w \in 0..31 : n < Pow2(w) /\ (w = 0 \/ n >= Pow2(w - 1))

\* the natural number a sequence of fewer than 31 binary digits spells
RECURSIVE FromBits(_)
FromBits(b) ==
    IF Len(b) = 0 THEN 0
    ELSE IF Len(b) = 1 THEN b[1]
    ELSE LET half == Len(b) \div 2
         IN FromBits(SubSeq(b, 1, half)) * Pow2(Len(b) - half)
                + FromBits(SubSeq(b, half + 1, Len(b)))

\* bits + 1, the carry out of the first position reported
Increment(b) ==
    LET zeros == {i \in DOMAIN b : b[i] = 0}
    IN IF zeros = {} THEN [bits |-> [i \in DOMAIN b |-> 0], carry |-> 1]
       ELSE LET last == CHOOSE i \in zeros : \A j \in zeros : j <= i
            IN [bits |-> [i \in DOMAIN b |->
                            IF i < last THEN b[i] ELSE IF i = last THEN 1 ELSE 0],
                carry |-> 0]

\* round to nearest, ties to even: b holds more than 53 bits of a value whose
\* leading bit weighs 2^e, sticky tells whether anything non-zero follows b
RoundToNearestEven(b, sticky, e) ==
    LET kept  == SubSeq(b, 1, Precision)
        guard == b[Precision + 1]
        rest  == sticky \/ \E i \in (Precision + 2)..Len(b) : b[i] = 1
        up    == Increment(kept)
    IN IF guard = 1 /\ (rest \/ kept[Precision] = 1)
       THEN IF up.carry = 1
            THEN [m |-> <<1>> \o SubSeq(up.bits, 1, Precision - 1), e |-> e + 1]
            ELSE [m |-> up.bits, e |-> e]
       ELSE [m |-> kept, e |-> e]

\* the exponent of a / b: 2^e <= a / b < 2^(e + 1)
RECURSIVE Exponent(_, _)
Exponent(a, b) ==
    IF a < b THEN Exponent(2 * a, b) - 1
    ELSE IF a >= 2 * b THEN Exponent(a, 2 * b) + 1
    ELSE 0

\* long division: the first n bits of r / t for t <= r < 2 * t, and whether
\* anything is left.  Bit i is the integer part of twice the remainder that
\* i - 1 bits leave, and that remainder is r * 2^(i - 1) modulo t.
QuotientBits(r, t, n) ==
    [bits |-> [i \in 1..n |-> IF i = 1 THEN 1
                              ELSE (2 * ((r * Pow2Mod(i - 2, t)) % t)) \div t],
     rem  |-> (r * Pow2Mod(n - 1, t)) % t]

\* a / b for naturals a and b > 0: the quotient correctly rounded
Divide(a, b) ==
    IF a = 0 THEN Zero
    ELSE LET e == Exponent(a, b)
             q == QuotientBits(IF e < 0 THEN a * Pow2(0 - e) ELSE a,
                               IF e > 0 THEN b * Pow2(e) ELSE b, Precision + 1)
         IN RoundToNearestEven(q.bits, q.rem # 0, e)

\* the exact product of the 53 bits m and k < 2^13, schoolbook in three limbs
\* of at most 18 bits
Limb == 18
Times(m, k) ==
    LET lo  == FromBits(SubSeq(m, Precision - Limb + 1, Precision)) * k
        mid == FromBits(SubSeq(m, Precision - 2 * Limb + 1, Precision - Limb)) * k
                   + lo \div Pow2(Limb)
        hi  == FromBits(SubSeq(m, 1, Precision - 2 * Limb)) * k + mid \div Pow2(Limb)
    IN ToBits(hi, BitLength(hi)) \o ToBits(mid % Pow2(Limb), Limb)
           \o ToBits(lo % Pow2(Limb), Limb)

\* x * k for a natural 1 < k < 2^13, which a Number holds exactly: the exact
\* product, correctly rounded
Multiply(x, k) ==
    IF x = Zero THEN Zero
    ELSE LET product == Times(x.m, k)
         IN RoundToNearestEven(product, FALSE, x.e + (Len(product) - Precision))

\* Math.round(x) for x >= 0: the nearest integer, a tie going up
MathRound(x) ==
    IF x = Zero \/ x.e < 0 - 1 THEN 0
    ELSE IF x.e = 0 - 1 THEN 1
    ELSE FromBits(SubSeq(x.m, 1, x.e + 1)) + x.m[x.e + 2]

\* signatories.filter(sig => sig.is_signed).length
SignedCount(signatories) ==
    Cardinality({s \in DOMAIN signatories : signatories[s].is_signed})

\* DocumentDetails: getSignatureProgress() over the page's signatories
DetailsGetSignatureProgress(c) ==
    LET signatories == page[c].signatories
    IN IF Len(signatories) = 0 THEN 0
       ELSE MathRound(Multiply(Divide(SignedCount(signatories), Len(signatories)), 100))

\* Dashboard: getSignatureProgress(signatories)
getSignatureProgress(signatories) ==
    IF Len(signatories) = 0
    THEN [signed |-> 0, total |-> 0, percentage |-> 0]
    ELSE LET signed == SignedCount(signatories)
             total  == Len(signatories)
         IN [signed |-> signed, total |-> total,
             percentage |-> IF total > 0
                            THEN MathRound(Multiply(Divide(signed, total), 100))
                            ELSE 0]

\* a document's signatories as both views hold them, signed of them signed
SignatoryList(total, signed, first) ==
    [s \in 1..total |->
        LET isSigned == IF first THEN s <= signed ELSE s > total - signed
        IN SignatoryRow(isSigned, IF isSigned THEN T ELSE NULL)]

InitProgress ==
    /\ db = EmptyDb
    /\ lastTx = NoTx
    /\ everCommented = [d \in DocIds |-> {}]
    /\ \E total \in 0..MaxSignatories : \E signed \in 0..total : \E first \in BOOLEAN :
          page = [c \in Clients |->
                    [BlankPage EXCEPT !.signatories = SignatoryList(total, signed, first)]]
    /\ notifications = <<>>
    /\ unreadCount = 0
    /\ calls = <<>>
    /\ channel = <<>>
    /\ marked = {}
    /\ sw = IdleWorker
    /\ session = SignedIn

\* the detail view renders the progress bar of the document it shows
renderDocumentDetails(c) ==
    /\ lastTx' = [NoTx EXCEPT !.by = "DocumentDetails", !.op = "getSignatureProgress",
                              !.actor = SessionUser(c),
                              !.arg = DetailsGetSignatureProgress(c)]
    /\ UNCHANGED <<db, everCommented, page, storeVars>>

\* the dashboard renders the progress of the same document in its list
renderDashboard(c) ==
    /\ lastTx' = [NoTx EXCEPT !.by = "Dashboard", !.op = "getSignatureProgress",
                              !.actor = SessionUser(c),
                              !.arg = getSignatureProgress(page[c].signatories).percentage]
    /\ UNCHANGED <<db, everCommented, page, storeVars>>

NextProgress ==
    \/ \E c \in Clients : renderDocumentDetails(c)
    \/ \E c \in Clients : renderDashboard(c)

SpecProgress == InitProgress /\ [][NextProgress]_vars

\* ------------------------------------------------- two notification stores
\* A second signed-in session next to StoreUser's.  Its provider exports the
\* same handlers; markAsRead(notificationId) and deleteNotification(
\* notificationId) send whatever id they are called with, so the id of its
\* statement ranges over all notifications.
PeerUser == SessionUser("c2")

\* a handler of the peer session sends its statement; the backend executes it
\* with auth.uid() = PeerUser
peerRequest(op, id) ==
    /\ db' = Backend(db, PeerUser, Call(op, id, FALSE))
    /\ lastTx' = [NoTx EXCEPT !.by = op, !.op = "notifications", !.actor = PeerUser,
                              !.sig = id,
                              !.arg = IF op = "loadNotifications"
                                      THEN SelectNotifications(db, PeerUser)
                                      ELSE <<>>]
    /\ UNCHANGED <<everCommented, page, storeVars>>

\* StoreUser's session after its sign-in, every request reaching the backend
NextTwoStores ==
    \/ \E id \in NotifIds : markAsRead(id)
    \/ markAllAsRead
    \/ \E id \in NotifIds : deleteNotification(id)
    \/ clearAllNotifications
    \/ \E i \in 1..MaxCalls : execute(i, TRUE)
    \/ \E i \in 1..MaxCalls : resolve(i)
    \/ \E c \in Clients : rpcCreateNotification(SessionUser(c))
    \/ onInsert
    \/ \E op \in {"loadNotifications", "markAsRead", "markAllAsRead",
                  "deleteNotification", "clearAllNotifications"}, id \in NotifIds :
            peerRequest(op, id)

SpecTwoStores == InitSignedIn /\ [][NextTwoStores]_vars

\* ------------------------------------------- notifications made by clients
\* notifications has row level security and no INSERT policy: an INSERT sent
\* by a client is refused
InsertNotificationPolicy(store, uid, row) == FALSE

\* supabase.from('notifications').insert({ user_id: p_user_id, ... })
insertNotification(c, p_user_id) ==
    /\ db.nextNotif < MaxNotifs
    /\ LET uid == SessionUser(c)
           row == NotificationRow(db.nextNotif + 1, p_user_id, NoDoc, "custom_type")
           res == IF InsertNotificationPolicy(db, uid, row)
                  THEN Committed([db EXCEPT !.notifications = @ \cup {row},
                                            !.nextNotif = @ + 1], FALSE, {row})
                  ELSE RolledBack(db, FALSE)
       IN /\ db' = res.db
          /\ lastTx' = Tx("client", "insert_notification", uid, NoDoc, 0, p_user_id,
                          "-", res)
    /\ UNCHANGED <<everCommented, page, storeVars>>

\* supabase.rpc('create_notification_for_user', { p_user_id, ... }): the
\* function is SECURITY DEFINER, every role may execute it, and its body
\* looks at neither auth.uid() nor the caller's role
rpcCreateNotificationForUser(c, p_user_id) ==
    /\ db.nextNotif < MaxNotifs
    /\ LET f == create_notification_for_user(db, p_user_id, "custom_type", NoDoc)
       IN /\ db' = f.db
          /\ lastTx' = Tx("client", "rpc_create_notification_for_user", SessionUser(c),
                          NoDoc, 0, p_user_id, "-", Committed(f.db, FALSE, f.inserted))
    /\ UNCHANGED <<everCommented, page, storeVars>>

\* supabase.rpc('create_notification_for_users', { ..., p_exclude_user_id })
rpcCreateNotificationForUsers(c, p_exclude_user_id) ==
    /\ db.nextNotif < MaxNotifs
    /\ LET f == create_notification_for_users(db, "system_announcement", NoDoc,
                                              p_exclude_user_id)
       IN /\ db' = f.db
          /\ lastTx' = Tx("client", "rpc_create_notification_for_users", SessionUser(c),
                          NoDoc, 0, p_exclude_user_id, "-",
                          Committed(f.db, FALSE, f.inserted))
    /\ UNCHANGED <<everCommented, page, storeVars>>

NextRpc ==
    \/ \E c \in Clients, u \in Users : insertNotification(c, u)
    \/ \E c \in Clients, u \in Users : rpcCreateNotificationForUser(c, u)
    \/ \E c \in Clients, u \in Users \cup {NULL} : rpcCreateNotificationForUsers(c, u)

SpecRpc == Init /\ [][NextRpc]_vars

\* ------------------------------------------------------- profiles and roles
\* users.role of an account that has no profile row yet
NoProfile == "-"

\* options.data.role of supabase.auth.signUp: signUp's role parameter, which
\* the caller chooses ('member' when omitted); NULL when the metadata has no role
MetadataRoles == Roles \cup {"owner", NULL}

\* role VARCHAR(20) NOT NULL CHECK (role IN ('admin', 'member'))
RoleCheck(role) == role \in Roles

\* handle_new_user, AFTER INSERT ON auth.users: the profile row takes
\* COALESCE(raw_user_meta_data->>'role', 'member')
handle_new_user(store, id, metaRole) ==
    LET role == Coalesce(metaRole, "member")
    IN IF RoleCheck(role)
       THEN Committed([store EXCEPT !.users[id] = role], FALSE, {})
       ELSE RolledBack(store, FALSE)

\* policy "Users can update their own profile": FOR UPDATE USING (auth.uid() = id)
UserUpdatePolicy(uid, id) == uid = id

\* UPDATE users SET role = role WHERE id = id
UpdateUserRole(store, uid, id, role) ==
    IF ~(store.users[id] # NoProfile /\ UserUpdatePolicy(uid, id))
    THEN Committed(store, FALSE, {})
    ELSE IF RoleCheck(role)
         THEN Committed([store EXCEPT !.users[id] = role], TRUE, {})
         ELSE RolledBack(store, TRUE)

\* signUp(email, password, fullName, role) for an address without an account
signUp(u, role) ==
    /\ db.users[u] = NoProfile
    /\ LET res == handle_new_user(db, u, role)
       IN /\ db' = res.db
          /\ lastTx' = Tx("signUp", "insert_user", u, NoDoc, 0, role, NoProfile, res)
    /\ UNCHANGED <<everCommented, page, storeVars>>

\* a signed-in client updates a profile row:
\* supabase.from('users').update({ role }).eq('id', id)
updateProfile(c, id, role) ==
    /\ db.users[SessionUser(c)] # NoProfile
    /\ LET uid == SessionUser(c)
           res == UpdateUserRole(db, uid, id, role)
       IN /\ db' = res.db
          /\ lastTx' = Tx("client", "update_user", uid, NoDoc, 0, role, db.users[id], res)
    /\ UNCHANGED <<everCommented, page, storeVars>>

InitProfile ==
    /\ db = [EmptyDb EXCEPT !.users = [u \in Users |-> NoProfile]]
    /\ lastTx = NoTx
    /\ everCommented = [d \in DocIds |-> {}]
    /\ page = [c \in Clients |-> BlankPage]
    /\ InitStore

NextProfile ==
    \/ \E u \in Users, role \in MetadataRoles : signUp(u, role)
    \/ \E c \in Clients, id \in Users, role \in Roles \cup {"owner"} :
            updateProfile(c, id, role)

SpecProfile == InitProfile /\ [][NextProfile]_vars

\* ------------------------------------------------------ the service worker
\* A push message carries no data, or data: a text that is not JSON, or a
\* text that JSON.parse accepts (an object, null, a number).
Absent == "undefined"
FieldValues == {Absent, "", "x"}

Payload(kind, text, title, body, tag) ==
    [kind |-> kind, text |-> text, title |-> title, body |-> body, tag |-> tag]

PushPayloads ==
    {Payload("none", "-", Absent, Absent, Absent)}
        \cup {Payload("text", t, Absent, Absent, Absent) : t \in {"", "hello"}}
        \cup {Payload(k, "-", Absent, Absent, Absent) : k \in {"null", "number"}}
        \cup {Payload("object", "-", title, body, tag) :
                 title \in FieldValues, body \in FieldValues, tag \in {Absent, "t1"}}

\* a || b
OrElse(a, b) == IF a \in {Absent, "", NULL} THEN b ELSE a

\* a parsed value: an object with its members, null, or a number
JsonValue(type, title, body, tag) ==
    [type |-> type, title |-> title, body |-> body, tag |-> tag]

\* event.data.json(): throws on a text that is not JSON
EventDataJson(p) ==
    IF p.kind = "text" THEN [ok |-> FALSE, value |-> JsonValue("-", Absent, Absent, Absent)]
    ELSE [ok |-> TRUE,
          value |-> IF p.kind = "object" THEN JsonValue("object", p.title, p.body, p.tag)
                    ELSE JsonValue(p.kind, Absent, Absent, Absent)]

\* the object the catch block and the else branch build
FallbackData(body) == JsonValue("object", "Document Tracker", body, Absent)

\* let notificationData = {}; if (event.data) { try ... catch ... } else { ... }
NotificationData(p) ==
    IF p.kind = "none" THEN FallbackData("New notification")
    ELSE LET parsed == EventDataJson(p)
         IN IF parsed.ok THEN parsed.value
            ELSE FallbackData(OrElse(p.text, "New notification"))

\* notificationData.<field>: a TypeError on null, undefined on a number
ThrowsTypeError(v) == v.type = "null"
Field(v, name) == IF v.type = "object" THEN v[name] ELSE Absent

\* self.registration.showNotification(title, options): title is converted to
\* a string, an options.body left undefined is the empty body, and a
\* notification replaces the displayed one that has its tag
ShowNotification(worker, title, options) ==
    LET shown == [title |-> title,
                  body  |-> IF options.body = Absent THEN "" ELSE options.body,
                  displayed |-> TRUE]
    IN [worker EXCEPT !.calls = Append(@, [title |-> shown.title, body |-> shown.body,
                                           tag |-> options.tag]),
                      !.displayed[options.tag] = shown]

\* the 'push' listener
push(p) ==
    /\ LET notificationData == NotificationData(p)
           options == [body |-> Field(notificationData, "body"),
                       tag  |-> OrElse(Field(notificationData, "tag"), "document-tracker")]
           handling == [sw EXCEPT !.event = p, !.calls = <<>>]
       IN sw' = IF ThrowsTypeError(notificationData) THEN handling
                ELSE ShowNotification(handling, Field(notificationData, "title"), options)
    /\ UNCHANGED <<dbVars, notifications, unreadCount, calls, channel, marked, session>>

\* the 'notificationclick' listener: event.notification.close()
notificationclick(tag) ==
    /\ sw.displayed[tag].displayed
    /\ sw' = [sw EXCEPT !.displayed[tag] = NotDisplayed]
    /\ UNCHANGED <<dbVars, notifications, unreadCount, calls, channel, marked, session>>

NextWorker ==
    \/ \E p \in PushPayloads : push(p)
    \/ \E tag \in NotificationTags : notificationclick(tag)

SpecWorker == Init /\ [][NextWorker]_vars

\* ------------------------------------------------- the session and flags
\* realtime channels a browser may hold open, and handlers awaiting at once
MaxChannels == 2
MaxRunning == 2

\* AuthProvider and NotificationProvider as mounted: no user, loading, and
\* getInitialSession awaiting getSession()
Mounted ==
    [user |-> NoUser, loading |-> TRUE, pc |-> "getSession", listener |-> "idle",
     channels |-> 0, flags |-> {}]

\* how an awaited backend call ends
Outcomes == {"data", "error", "throws"}

\* the handlers that set a busy flag around their backend calls: setLoading,
\* setApprovingDocument, setDeletingDocument, setSubmittingComment,
\* setLoading (dashboard), setUploading, setLoading (new document)
FlagOps ==
    {"fetchDocumentDetails", "handleAdminApproval", "handleDeleteDocument", "addComment",
     "fetchDocuments", "handleFileUpload", "onSubmit"}

\* a handler sets its flag and awaits
begin(op) ==
    /\ op \notin session.flags
    /\ Cardinality(session.flags) < MaxRunning
    /\ session' = [session EXCEPT !.flags = @ \cup {op}]
    /\ UNCHANGED <<dbVars, notifications, unreadCount, calls, channel, marked, sw>>

\* its awaited call ends; try, catch and then the finally block, which resets
\* the flag, whatever the outcome
settle(op, outcome) ==
    /\ op \in session.flags
    /\ outcome \in Outcomes
    /\ session' = [session EXCEPT !.flags = @ \ {op}]
    /\ UNCHANGED <<dbVars, notifications, unreadCount, calls, channel, marked, sw>>

\* NotificationProvider's effect on [user], run when setUser changed the
\* value: with a user it loads and opens a channel (the cleanup function that
\* subscribeToNotifications returns is dropped), without one it empties the
\* store. next is the session after the AuthProvider's own updates.
userEffect(u, next) ==
    IF u # NoUser
    THEN /\ Len(calls) < MaxCalls
         /\ next.channels < MaxChannels
         /\ calls' = Append(calls, Call("loadNotifications", 0, FALSE))
         /\ session' = [next EXCEPT !.channels = @ + 1]
         /\ UNCHANGED <<notifications, unreadCount>>
    ELSE /\ session' = next
         /\ notifications' = IF session.user = NoUser THEN notifications ELSE <<>>
         /\ unreadCount' = IF session.user = NoUser THEN unreadCount ELSE 0
         /\ UNCHANGED calls

\* getInitialSession after getSession(): with a session it sets the user and
\* awaits the profile, without one it ends loading, and a rejected promise
\* ends the function
getInitialSession(outcome) ==
    /\ session.pc = "getSession"
    /\ outcome \in {"session", "none", "throws"}
    /\ IF outcome = "session"
       THEN userEffect(StoreUser, [session EXCEPT !.user = StoreUser,
                                                  !.pc = "getCurrentUserProfile"])
       ELSE /\ session' = IF outcome = "none"
                          THEN [session EXCEPT !.loading = FALSE, !.pc = "returned"]
                          ELSE [session EXCEPT !.pc = "rejected"]
            /\ UNCHANGED <<notifications, unreadCount, calls>>
    /\ UNCHANGED <<dbVars, channel, marked, sw>>

\* getInitialSession after getCurrentUserProfile(): setProfile and
\* setLoading(false), which a rejected promise skips
getInitialSessionProfile(ok) ==
    /\ session.pc = "getCurrentUserProfile"
    /\ session' = IF ok THEN [session EXCEPT !.loading = FALSE, !.pc = "returned"]
                  ELSE [session EXCEPT !.pc = "rejected"]
    /\ UNCHANGED <<dbVars, notifications, unreadCount, calls, channel, marked, sw>>

\* the onAuthStateChange callback for an event with the session of u (a new
\* user object each time) or, as after signOut, with none
onAuthStateChange(u) ==
    /\ session.listener = "idle"
    /\ IF u # NoUser
       THEN userEffect(u, [session EXCEPT !.user = u,
                                          !.listener = "getCurrentUserProfile"])
       ELSE userEffect(u, [session EXCEPT !.user = NoUser, !.loading = FALSE])
    /\ UNCHANGED <<dbVars, channel, marked, sw>>

\* the callback after getCurrentUserProfile()
onAuthStateChangeProfile(ok) ==
    /\ session.listener = "getCurrentUserProfile"
    /\ session' = IF ok THEN [session EXCEPT !.loading = FALSE, !.listener = "idle"]
                  ELSE [session EXCEPT !.listener = "idle"]
    /\ UNCHANGED <<dbVars, notifications, unreadCount, calls, channel, marked, sw>>

InitMounted ==
    /\ db = EmptyDb
    /\ lastTx = NoTx
    /\ everCommented = [d \in DocIds |-> {}]
    /\ page = [c \in Clients |-> BlankPage]
    /\ notifications = <<>>
    /\ unreadCount = 0
    /\ calls = <<>>
    /\ channel = <<>>
    /\ marked = {}
    /\ sw = IdleWorker
    /\ session = Mounted

AuthSteps ==
    \/ \E outcome \in {"session", "none", "throws"} : getInitialSession(outcome)
    \/ \E ok \in BOOLEAN : getInitialSessionProfile(ok)
    \/ \E u \in {StoreUser, NoUser} : onAuthStateChange(u)
    \/ \E ok \in BOOLEAN : onAuthStateChangeProfile(ok)
    \/ \E i \in 1..MaxCalls, ok \in BOOLEAN : execute(i, ok)
    \/ \E i \in 1..MaxCalls : resolve(i)

\* the session with the store and its live channel
NextSession ==
    \/ AuthSteps
    \/ rpcCreateNotification(StoreUser)
    \/ onInsert

SpecSession == InitMounted /\ [][NextSession]_vars

\* the session with the components' handlers; every call that is awaited
\* ends in one of its outcomes
NextLoading ==
    \/ AuthSteps
    \/ \E op \in FlagOps : begin(op)
    \/ \E op \in FlagOps, outcome \in Outcomes : settle(op, outcome)

SpecLoading ==
    /\ InitMounted
    /\ [][NextLoading]_vars
    /\ \A op \in FlagOps : WF_vars(\E outcome \in Outcomes : settle(op, outcome))
    /\ WF_vars(\E outcome \in {"session", "none", "throws"} : getInitialSession(outcome))
    /\ WF_vars(\E ok \in BOOLEAN : getInitialSessionProfile(ok))
    /\ WF_vars(\E ok \in BOOLEAN : onAuthStateChangeProfile(ok))
    /\ WF_vars(\E i \in 1..MaxCalls, ok \in BOOLEAN : execute(i, ok))
    /\ WF_vars(\E i \in 1..MaxCalls : resolve(i))

\* ------------------------------------------------------------ the audience
\* {creator} \cup admin-role users \cup the given commenters
Stakeholders(creator, commenters) ==
    {creator} \cup {u \in Users : db.users[u] = "admin"} \cup commenters

\* the users for whom rows holds exactly one notification of the type and document
NotifiedOnce(rows, type, d) ==
    {u \in Users :
        Cardinality({n \in rows : n.user_id = u /\ n.type = type /\ n.document_id = d}) = 1}

\* the users for whom rows holds a notification
Notified(rows) == {n.user_id : n \in rows}

CurrentCommenters(d) == {c[2] : c \in {x \in db.document_comments : x[1] = d}}

\* ------------------------------------------------------------------ claims
\* C1: in every state of the notification store in which no call is awaiting
\* its response and no live event is queued, unreadCount equals the number of
\* cached notifications with read = false.
C1_CountMatchesCache ==
    (calls = <<>> /\ channel = <<>>) => unreadCount = Unread(notifications)

\* a markAsRead call whose response arrives in this step
MarkAsReadResolves(i) ==
    /\ i \in DOMAIN calls
    /\ calls[i].op = "markAsRead"
    /\ calls[i].phase = "done"
    /\ calls[i].ok
    /\ calls' = RemoveAt(calls, i)

\* C2: a second markAsRead call on a notification (one an earlier markAsRead
\* call has already marked read) leaves the cached list, unreadCount and the
\* stored row as the first call left them, and no markAsRead call increases
\* unreadCount.
C2_MarkAsReadIdempotent ==
    [][\A i \in 1..MaxCalls :
          MarkAsReadResolves(i) =>
              /\ unreadCount' <= unreadCount
              /\ calls[i].id \in marked =>
                    /\ notifications' = notifications
                    /\ unreadCount' = unreadCount
                    /\ db' = db]_vars

\* C3: inserting a document whose creator is an existing user U commits and
\* inserts exactly one notification row for each other user and none for U
\* (|Users| - 1 rows), each of type document_created for that document.
C3_DocumentCreatedFanOut ==
    lastTx.op = "insert_document" =>
        /\ lastTx.ok
        /\ lastTx.inserted \subseteq db.notifications
        /\ Cardinality(lastTx.inserted) = Cardinality(Users) - 1
        /\ NotifiedOnce(lastTx.inserted, "document_created", lastTx.doc)
              = Users \ {lastTx.actor}
        /\ lastTx.actor \notin Notified(lastTx.inserted)

C3_Witness ==
    /\ lastTx.op = "insert_document"
    /\ lastTx.ok
    /\ Cardinality(lastTx.inserted) = 2
    /\ db.documents[lastTx.doc].created_by = lastTx.actor

\* the admin_approved value an update of documents leaves in the row
WrittenApproval == IF lastTx.arg = KEEP THEN lastTx.old ELSE lastTx.arg

\* C4: when an update changes a document's admin_approved value, the status
\* trigger inserts exactly one status_updated notification for each user in
\* ({creator} \cup admins \cup commenters of the document) minus the acting
\* user, and no row for anyone else.
C4_StatusFanOut ==
    (/\ lastTx.op = "update_document"
     /\ lastTx.matched
     /\ lastTx.ok
     /\ lastTx.old # WrittenApproval) =>
        /\ NotifiedOnce(lastTx.inserted, "status_updated", lastTx.doc)
              = Stakeholders(db.documents[lastTx.doc].created_by,
                             CurrentCommenters(lastTx.doc)) \ {lastTx.actor}
        /\ Notified(lastTx.inserted)
              = Stakeholders(db.documents[lastTx.doc].created_by,
                             CurrentCommenters(lastTx.doc)) \ {lastTx.actor}

\* C5: an update of a document that writes admin_approved to the value it
\* already held, or does not write admin_approved, commits and inserts no
\* notification row.
C5_SameValueNoNotification ==
    (/\ lastTx.op = "update_document"
     /\ lastTx.matched
     /\ lastTx.old = WrittenApproval) =>
        /\ lastTx.ok
        /\ lastTx.inserted = {}
        /\ db.documents[lastTx.doc].admin_approved = lastTx.old

C5_Witness ==
    /\ lastTx.by = "handleAdminApproval"
    /\ lastTx.op = "update_document"
    /\ lastTx.matched
    /\ lastTx.ok
    /\ lastTx.arg = lastTx.old
    /\ Stakeholders(db.documents[lastTx.doc].created_by,
                    CurrentCommenters(lastTx.doc)) \ {lastTx.actor} # {}

\* C6: changing a document's admin_approved from unset (NULL) to approved
\* (true) inserts a status_updated notification for every user of the
\* computed audience.
C6_UnsetToApprovedNotifies ==
    (/\ lastTx.op = "update_document"
     /\ lastTx.matched
     /\ lastTx.ok
     /\ lastTx.old = NULL
     /\ lastTx.arg = T) =>
        \A u \in Stakeholders(db.documents[lastTx.doc].created_by,
                              CurrentCommenters(lastTx.doc)) \ {lastTx.actor} :
            \E n \in lastTx.inserted :
                n.user_id = u /\ n.type = "status_updated" /\ n.document_id = lastTx.doc

\* C7: updateSignatureStatus sets a document's status to completed only when,
\* in the store at that moment, every signatory of the document has
\* is_signed = true and admin_approved is not false.
C7_CompletedOnlyWhenSignedAndApproved ==
    (/\ lastTx.by = "updateSignatureStatus"
     /\ lastTx.op = "update_document"
     /\ lastTx.matched
     /\ lastTx.ok) =>
        /\ db.documents[lastTx.doc].status = "completed"
        /\ \A s \in SigIdx : db.document_signatories[lastTx.doc][s].exists =>
                                db.document_signatories[lastTx.doc][s].is_signed
        /\ db.documents[lastTx.doc].admin_approved # F

\* C8: an update that marks a signatory signed reaches the store only when the
\* document's requires_admin_approval is false or its admin_approved is true.
C8_SignOnlyWhenPermitted ==
    (/\ lastTx.by = "updateSignatureStatus"
     /\ lastTx.op = "update_signatory"
     /\ lastTx.matched
     /\ lastTx.arg = SignedAtNow(TRUE)) =>
        \/ ~db.documents[lastTx.doc].requires_admin_approval
        \/ db.documents[lastTx.doc].admin_approved = T

\* C9: the delete of a document by user X through handleDeleteDocument commits
\* and the store then holds a document_deleted notification for every user in
\* ({creator} \cup admins \cup users who had commented on it) minus X, and for
\* no one else.
C9_DeletedFanOut ==
    (/\ lastTx.by = "handleDeleteDocument"
     /\ lastTx.op = "delete_document"
     /\ lastTx.matched) =>
        /\ lastTx.ok
        /\ {n.user_id : n \in {m \in db.notifications :
                                  m.type = "document_deleted" /\ m.document_id = lastTx.doc}}
              = Stakeholders(lastTx.old, everCommented[lastTx.doc]) \ {lastTx.actor}

\* C10: when an update changes a signatory's signed_at (mark as signed or
\* undo), the update commits and the signature trigger inserts one
\* signature_added notification for every user in {creator} \cup admins \cup
\* commenters of the parent document, the acting user included.
C10_SignatureFanOut ==
    (/\ lastTx.op = "update_signatory"
     /\ lastTx.matched
     /\ IsDistinctFrom(lastTx.old, lastTx.arg)) =>
        /\ lastTx.ok
        /\ NotifiedOnce(lastTx.inserted, "signature_added", lastTx.doc)
              = Stakeholders(db.documents[lastTx.doc].created_by,
                             CurrentCommenters(lastTx.doc))

\* C11: registering a push subscription for a (user, endpoint) pair that is
\* already registered succeeds and leaves exactly one push_subscriptions row
\* for the pair, holding the keys of this second registration.
C11_PushUpsertRoundTrip ==
    (/\ lastTx.op = "upsert_push_subscription"
     /\ lastTx.old # "-") =>
        /\ lastTx.ok
        /\ Cardinality({r \in db.push_subscriptions :
                           r.user_id = lastTx.actor /\ r.endpoint = lastTx.sig}) = 1
        /\ StoredKeys(db, lastTx.actor, lastTx.sig) = lastTx.arg

\* a loadNotifications call whose response arrives in this step, with the
\* user's stored rows unchanged since the backend read them
LoadResolves(i) ==
    /\ i \in DOMAIN calls
    /\ calls[i].op = "loadNotifications"
    /\ calls[i].phase = "done"
    /\ calls[i].ok
    /\ calls' = RemoveAt(calls, i)
    /\ calls[i].data = SelectNotifications(db, StoreUser)

\* C12: after loadNotifications completes successfully, unreadCount equals the
\* number of stored notifications of the caller with read = false, however
\* many notifications the caller has stored.
C12_LoadCountsStoredUnread ==
    [][\A i \in 1..MaxCalls :
          LoadResolves(i) =>
              unreadCount' = Cardinality({r \in db.notifications :
                                             r.user_id = StoreUser /\ ~r.read})]_vars

\* a call of the given handler that succeeded and whose response arrives in
\* this step
Resolves(i, op) ==
    /\ i \in DOMAIN calls
    /\ calls[i].op = op
    /\ calls[i].phase = "done"
    /\ calls[i].ok
    /\ calls' = RemoveAt(calls, i)

\* a call of the given handler has succeeded and its response is about to arrive
AboutToResolve(i, op) ==
    /\ i \in DOMAIN calls
    /\ calls[i].op = op
    /\ calls[i].phase = "done"
    /\ calls[i].ok

\* C13: a clearAllNotifications call that succeeds leaves unreadCount at 0 and
\* the cached list empty, whatever the list and the counter were before.
C13_ClearAllResets ==
    [][\A i \in 1..MaxCalls :
          Resolves(i, "clearAllNotifications") =>
              (notifications' = <<>> /\ unreadCount' = 0)]_vars

C13_Witness ==
    \E i \in 1..MaxCalls :
        /\ AboutToResolve(i, "clearAllNotifications")
        /\ Len(notifications) > 1
        /\ unreadCount # 0
        /\ unreadCount # Unread(notifications)

\* C14: a deleteNotification call decreases unreadCount by exactly 1 when the
\* notification it deletes is unread and leaves unreadCount as it is when the
\* notification is read (or already gone), also when another markAsRead or
\* deleteNotification call on that notification was started from the same view.
C14_DeleteAdjustsCount ==
    [][\A i \in 1..MaxCalls :
          Resolves(i, "deleteNotification") =>
              unreadCount' = IF FindUnread(notifications, calls[i].id)
                             THEN unreadCount - 1 ELSE unreadCount]_vars

\* C15: the percentage either view displays is round(100 * signed / total),
\* a half rounding up, 0 for a document without signatories, and the detail
\* view and the dashboard compute the same value for the same signatories
RoundedShare(signed, total) ==
    IF total = 0 THEN 0 ELSE (200 * signed + total) \div (2 * total)

C15_ProgressIsRoundedShare ==
    lastTx.op = "getSignatureProgress" =>
        \A c \in Clients :
            LET signatories == page[c].signatories
            IN /\ lastTx.arg = RoundedShare(SignedCount(signatories), Len(signatories))
               /\ DetailsGetSignatureProgress(c) =
                      getSignatureProgress(signatories).percentage

\* C16: no operation of a user (list, mark read, mark all read, delete,
\* delete all) reads, changes or deletes a notification of another user, and
\* the cached list of a session only holds notifications of its own user
OwnedBy(store, u) == {r \in store.notifications : r.user_id = u}

OthersUntouched(u) == \A v \in Users \ {u} : OwnedBy(db', v) = OwnedBy(db, v)

OnlyOwn(list, u) ==
    \A k \in DOMAIN list : \A r \in db.notifications :
        r.id = list[k].id => r.user_id = u

Executes(i) ==
    /\ i \in DOMAIN calls
    /\ calls[i].phase = "sent"
    /\ Len(calls') = Len(calls)
    /\ calls'[i].phase = "done"

PeerRequests == lastTx' # lastTx /\ lastTx'.op = "notifications"

ClientNotificationRequests ==
    {"insert_notification", "rpc_create_notification_for_user",
     "rpc_create_notification_for_users"}

C17_MembersCannotNotifyOthers ==
    (/\ lastTx.op \in ClientNotificationRequests
     /\ \E r \in lastTx.inserted : r.user_id # lastTx.actor)
        => db.users[lastTx.actor] = "admin"

\* C18: a profile created by a sign-up has role 'member', and once a profile
\* exists no sign-up and no profile update changes its role
C18_RoleFixed ==
    [][\A u \in Users :
          /\ (db.users[u] = NoProfile /\ db'.users[u] # NoProfile)
                => db'.users[u] = "member"
          /\ db.users[u] # NoProfile => db'.users[u] = db.users[u]]_vars

\* C19: a statement whose trigger fails while it computes the audience or
\* inserts the notifications commits nothing, and a committed insert of a
\* document, approval change or signature update has the notification rows
\* its trigger makes: the mutation and its rows are stored together or not
\* at all
TriggeredStatements == {"insert_document", "update_document", "update_signatory"}

\* the trigger of the recorded statement reaches its notification call
TriggerNotifies ==
    CASE lastTx.op = "insert_document" -> TRUE
      [] lastTx.op = "update_document" ->
            lastTx.matched /\ PlpgsqlIf(SqlNeq(lastTx.old, WrittenApproval))
      [] lastTx.op = "update_signatory" ->
            lastTx.matched /\ IsDistinctFrom(lastTx.old, lastTx.arg)
      [] OTHER -> FALSE

C19_TriggerAtomicity ==
    [][(lastTx' # lastTx /\ lastTx'.op \in TriggeredStatements) =>
          /\ ~lastTx'.ok => db' = db
          /\ lastTx'.ok =>
                /\ db'.notifications = db.notifications \cup lastTx'.inserted
                /\ TriggerNotifies' => lastTx'.inserted # {}]_vars

\* an approval change whose trigger raised: the document keeps the old value
C19_Witness ==
    /\ lastTx.op = "update_document"
    /\ lastTx.matched
    /\ ~lastTx.ok
    /\ lastTx.old \in {T, F}
    /\ lastTx.arg \in {T, F} \ {lastTx.old}
    /\ db.documents[lastTx.doc].admin_approved = lastTx.old
    /\ db.notifications # {}

\* C20: the service worker answers every push event (JSON, plain text or no
\* payload) with exactly one showNotification call, and a payload without a
\* usable title and body is shown as 'Document Tracker' / 'New notification'
NoUsableFields(p) ==
    \/ p.kind \in {"none", "null", "number"}
    \/ p.kind = "text" /\ p.text = ""
    \/ p.kind = "object" /\ p.title \in {Absent, ""} /\ p.body \in {Absent, ""}

C20_OneNotificationPerPush ==
    sw.event # NoEvent =>
        /\ Len(sw.calls) = 1
        /\ NoUsableFields(sw.event) =>
              /\ sw.calls[1].title = "Document Tracker"
              /\ sw.calls[1].body = "New notification"

\* C24: unreadCount is never negative
C24_CountNeverNegative == unreadCount >= 0

\* a call whose request failed and whose response arrives in this step
FailedResolves(i) ==
    /\ i \in DOMAIN calls
    /\ calls[i].phase = "done"
    /\ ~calls[i].ok
    /\ calls' = RemoveAt(calls, i)

\* C30: when the backend returns an error to a call of the store, the cached
\* list and unreadCount are after the response what they were before it
C30_ErrorLeavesStore ==
    [][\A i \in 1..MaxCalls :
          FailedResolves(i) =>
              (notifications' = notifications /\ unreadCount' = unreadCount)]_vars

\* the error response of a clearAllNotifications call is about to arrive
\* while the list is not empty and notifications are unread
C30_Witness ==
    \E i \in DOMAIN calls :
        /\ calls[i].phase = "done"
        /\ ~calls[i].ok
        /\ calls[i].op = "clearAllNotifications"
        /\ Len(notifications) > 0
        /\ unreadCount > 0

ClientOf(u) == CHOOSE c \in Clients : SessionUser(c) = u
NoHandlerRunning == \A c \in Clients : page[c].pc = "idle"

\* the recorded statement is updateSignatureStatus marking an existing
\* signatory signed
MarkedSigned(tx) ==
    /\ tx.by = "updateSignatureStatus"
    /\ tx.op = "update_signatory"
    /\ tx.arg = SignedAtNow(TRUE)
    /\ tx.matched

\* C25: when the last unsigned signatory of a document created through
\* onSubmit with requires_admin_approval = false has been marked signed through
\* updateSignatureStatus and the handler has finished, the document's status
\* is 'completed'
C25_AllSignedCompletes ==
    (/\ MarkedSigned(lastTx)
     /\ db.documents[lastTx.doc].exists
     /\ ~db.documents[lastTx.doc].requires_admin_approval
     /\ db.documents[lastTx.doc].admin_approved = AdminApprovedDefault
     /\ \A s \in SigIdx \ {lastTx.sig} :
           db.document_signatories[lastTx.doc][s].exists =>
               db.document_signatories[lastTx.doc][s].is_signed
     /\ page[ClientOf(lastTx.actor)].pc = "idle")
        => db.documents[lastTx.doc].status = "completed"

\* C26: while no handler is running, every signatory of a document whose
\* status is 'completed' is signed
C26_CompletedMeansAllSigned ==
    NoHandlerRunning =>
        \A d \in DocIds :
            (db.documents[d].exists /\ db.documents[d].status = "completed") =>
                \A s \in SigIdx : db.document_signatories[d][s].exists =>
                                     db.document_signatories[d][s].is_signed

\* C27: when the last two unsigned signatories of an approved document are
\* marked signed by two updateSignatureStatus calls started from views that
\* show both of them unsigned, the document's status is 'completed' once both
\* calls have finished
C27_ConcurrentSigningCompletes ==
    [][(/\ MarkedSigned(lastTx)
        /\ MarkedSigned(lastTx')
        /\ lastTx'.doc = lastTx.doc
        /\ lastTx'.sig # lastTx.sig
        /\ db.documents[lastTx.doc].exists
        /\ db.documents[lastTx.doc].admin_approved = T
        /\ \A s \in SigIdx :
              /\ db.document_signatories[lastTx.doc][s].exists
              /\ page[ClientOf(lastTx'.actor)].signatories[s].exists
              /\ ~page[ClientOf(lastTx'.actor)].signatories[s].is_signed
        /\ \A c \in Clients : page'[c].pc = "idle")
          => db'.documents[lastTx.doc].status = "completed"]_vars

\* C22: a notification inserted while loadNotifications is in flight ends up
\* in the cached list exactly once, whichever of the load response and the
\* live INSERT event is applied first: no id appears twice in the cached list
C22_LoadAndEventMerge ==
    \A j, k \in DOMAIN notifications :
        notifications[j].id = notifications[k].id => j = k

\* C21: every operation that sets a loading flag eventually resets it, whether
\* its backend call returns data, returns an error or throws: the components'
\* busy flags and the AuthProvider's loading
C21_LoadingFlagsReset ==
    /\ \A op \in FlagOps : (op \in session.flags) ~> (op \notin session.flags)
    /\ session.loading ~> ~session.loading

\* C23: a client has at most one realtime channel open, and none while no
\* user is signed in
C23_OneChannelWhileSignedIn ==
    /\ session.channels <= 1
    /\ session.user = NoUser => session.channels = 0

\* C29: while no user is signed in the store is empty: the cached list is
\* empty and unreadCount is 0
C29_SignedOutStoreEmpty ==
    session.user = NoUser => (notifications = <<>> /\ unreadCount = 0)

====
